---- MODULE Spec2Model ----
(***************************************************************************)
(* Model of .github/scripts/update_changelog.py: one run of the script     *)
(* queries git for the commits of HEAD~20..HEAD, formats a dated section   *)
(* and rewrites CHANGELOG.md.  Text is a sequence of one-character         *)
(* strings; the file is a record [exists, data].                           *)
(***************************************************************************)
EXTENDS Integers, Sequences, FiniteSets, TLC

VARIABLES
    file,      \* CHANGELOG.md on disk: [exists |-> BOOLEAN, data |-> text]
    before,    \* CHANGELOG.md as it was when the last run started
    outcome,   \* how the last run ended: "none" before any run
    repo,      \* the repository the last run queried
    date       \* the UTC date of the last run

vars == <<file, before, outcome, repo, date>>

----------------------------------------------------------------------------
(* Bounds of the model *)

MaxPieces == 2
MaxCommits == 2
MaxFileLen == 43

----------------------------------------------------------------------------
(* Characters and text *)

NL == "\n"
CR == "\r"
SP == " "

\* str.strip() with no argument strips whitespace
Whitespace == {SP, NL, CR, "\t"}

\* the literal "# Changelog" of lines 28-29
Header == <<"#", " ", "C", "h", "a", "n", "g", "e", "l", "o", "g">>

RECURSIVE LStrip(_)
LStrip(s) == IF s = <<>> \/ Head(s) \notin Whitespace THEN s ELSE LStrip(Tail(s))

RECURSIVE RStrip(_)
RStrip(s) ==
    IF s = <<>> \/ s[Len(s)] \notin Whitespace THEN s
    ELSE RStrip(SubSeq(s, 1, Len(s) - 1))

\* str.strip()
Strip(s) == RStrip(LStrip(s))

\* position of the first sep in s at or after i, 0 when there is none
RECURSIVE Find(_, _, _)
Find(s, sep, i) ==
    IF i > Len(s) THEN 0
    ELSE IF s[i] = sep THEN i
    ELSE Find(s, sep, i + 1)

\* str.split(sep) for a one-character separator: "" splits to [""]
RECURSIVE Split(_, _)
Split(s, sep) ==
    LET i == Find(s, sep, 1) IN
    IF i = 0 THEN <<s>>
    ELSE <<SubSeq(s, 1, i - 1)>> \o Split(SubSeq(s, i + 1, Len(s)), sep)

\* sep.join(parts)
RECURSIVE Join(_, _)
Join(sep, parts) ==
    IF parts = <<>> THEN <<>>
    ELSE IF Len(parts) = 1 THEN parts[1]
    ELSE parts[1] \o sep \o Join(sep, Tail(parts))

\* str.startswith(prefix)
Startswith(s, prefix) ==
    Len(s) >= Len(prefix) /\ SubSeq(s, 1, Len(prefix)) = prefix

\* f.read() of a file opened in text mode with the default newline=None:
\* "\r\n" and a lone "\r" are both read as "\n"
RECURSIVE ReadText(_)
ReadText(bytes) ==
    IF bytes = <<>> THEN <<>>
    ELSE IF Head(bytes) = CR
         THEN IF Len(bytes) >= 2 /\ bytes[2] = NL
              THEN <<NL>> \o ReadText(SubSeq(bytes, 3, Len(bytes)))
              ELSE <<NL>> \o ReadText(Tail(bytes))
    ELSE <<Head(bytes)>> \o ReadText(Tail(bytes))

----------------------------------------------------------------------------
(* The date: datetime.utcnow().strftime("%Y-%m-%d") *)

DigitChar(n) == <<"0", "1", "2", "3", "4", "5", "6", "7", "8", "9">>[n + 1]

Pad2(n) == <<DigitChar((n \div 10) % 10), DigitChar(n % 10)>>

Pad4(n) == Pad2(n \div 100) \o Pad2(n % 100)

Strftime(d) == Pad4(d.y) \o <<"-">> \o Pad2(d.m) \o <<"-">> \o Pad2(d.d)

Dates == {[y |-> 2024, m |-> 5, d |-> 1], [y |-> 2024, m |-> 12, d |-> 31]}

NoDate == [y |-> 0, m |-> 0, d |-> 0]

----------------------------------------------------------------------------
(* The repository and the history query *)

\* the 20 of "HEAD~20..HEAD"
Window == 20

\* a commit as the query prints it: %h and %s.  The summaries are non-empty
\* and carry no whitespace at their ends, as git prints the subject of a
\* commit that has a message.
Commits ==
    {[id |-> <<"a">>, summary |-> <<"x">>],
     [id |-> <<"b">>, summary |-> <<"y", SP, "z">>]}

CommitSeqs == UNION {[1..n -> Commits] : n \in 0..MaxCommits}

\* lengths of the first-parent chain of HEAD around the window
Depths == {0, 1, Window - 1, Window, Window + 1}

NotARepo == [isRepo |-> FALSE, depth |-> 0, commits |-> <<>>]

\* depth: the commits on HEAD's first-parent chain; commits: the non-merge
\* commits among the last Window of them, most recent first
Repos ==
    {NotARepo} \cup
    {r \in [isRepo : {TRUE}, depth : Depths, commits : CommitSeqs] :
        Len(r.commits) <= r.depth}

\* --pretty=format:%h %s
FormatRecord(c) == c.id \o <<SP>> \o c.summary

\* git log --pretty=format:"%h %s" --no-merges HEAD~20..HEAD under
\* check_output: a non-zero exit raises; HEAD~20 resolves only when the
\* first-parent chain has more than 20 commits; format: separates the
\* records by a newline and ends without one
GitLog(r) ==
    IF ~r.isRepo \/ r.depth <= Window
    THEN [ok |-> FALSE, out |-> <<>>]
    ELSE [ok |-> TRUE,
          out |-> Join(<<NL>>, [i \in 1..Len(r.commits) |-> FormatRecord(r.commits[i])])]

\* the same call without the check on the exit status
get_commit_log_unchecked(r) ==
    [ok |-> TRUE, commits |-> Split(Strip(GitLog(r).out), NL)]

get_commit_log(r) ==
    LET log == GitLog(r) IN
    IF log.ok THEN [ok |-> TRUE, commits |-> Split(Strip(log.out), NL)]
    ELSE [ok |-> FALSE, commits |-> <<>>]

----------------------------------------------------------------------------
(* update_changelog *)

Reverse(s) == [i \in 1..Len(s) |-> s[Len(s) + 1 - i]]

\* the section with the bullets oldest first
new_section_reversed(commits, d) ==
    << <<"#", "#", SP>> \o Strftime(d) \o <<NL>> >>
    \o [i \in 1..Len(commits) |-> <<"-", SP>> \o Reverse(commits)[i]]
    \o << <<NL>> >>

\* [f"## {date_str}\n"] + [f"- {c}" for c in commits] + ["\n"]
new_section(commits, d) ==
    << <<"#", "#", SP>> \o Strftime(d) \o <<NL>> >>
    \o [i \in 1..Len(commits) |-> <<"-", SP>> \o commits[i]]
    \o << <<NL>> >>

Absent == [exists |-> FALSE, data |-> <<>>]

OnDisk(text) == [exists |-> TRUE, data |-> text]

\* old_content = "" unless the file exists, then what f.read() returns
read_old_content(f) == IF f.exists THEN ReadText(f.data) ELSE <<>>

\* the header block prepended without looking at old_content
with_header_always(old_content) == Header \o <<NL, NL>> \o old_content

\* if not old_content.startswith("# Changelog"): prepend "# Changelog\n\n"
with_header(old_content) ==
    IF ~Startswith(old_content, Header)
    THEN Header \o <<NL, NL>> \o old_content
    ELSE old_content

\* old_content + "\n".join(new_section)
new_content(f, commits, d) ==
    with_header(read_old_content(f)) \o Join(<<NL>>, new_section(commits, d))

\* f.write(text) on a file opened in text mode with the default newline on
\* a POSIX system: "\n" is written as os.linesep, which is "\n"
WriteText(text) == [i \in 1..Len(text) |-> IF text[i] = NL THEN NL ELSE text[i]]

\* what a write that raises leaves on disk: the file was created or
\* truncated by open(..., "w"), and a proper prefix of content reached it
PartialWrites(content) ==
    LET written == WriteText(content) IN
    {OnDisk(SubSeq(written, 1, k)) : k \in 0..(Len(written) - 1)}

\* the file opened for writing before it is read
update_changelog_write_first(f, r, d, fault) ==
    LET q == get_commit_log(r) IN
    IF ~q.ok THEN [files |-> {f}, outcome |-> "query_failed"]
    ELSE IF q.commits = <<>> THEN [files |-> {f}, outcome |-> "ok"]
    ELSE IF fault = "open" THEN [files |-> {f}, outcome |-> "open_failed"]
    ELSE IF fault = "read" /\ f.exists
         THEN [files |-> {OnDisk(<<>>)}, outcome |-> "read_failed"]
    ELSE LET content == new_content(f, q.commits, d) IN
         IF fault = "write"
         THEN [files |-> PartialWrites(content), outcome |-> "write_failed"]
         ELSE [files |-> {OnDisk(WriteText(content))}, outcome |-> "ok"]

\* One call of update_changelog() on file f, repository r and date d.
\* fault names the filesystem call that raises, if any: "read" the open or
\* the read of lines 25-26, "open" the open of line 31, "write" the write of
\* line 32 or the flush on close.  The result is how
\* the call ends and the set of files it can leave on disk.
update_changelog(f, r, d, fault) ==
    LET q == get_commit_log(r) IN
    IF ~q.ok THEN [files |-> {f}, outcome |-> "query_failed"]
    ELSE IF q.commits = <<>> THEN [files |-> {f}, outcome |-> "ok"]
    ELSE IF fault = "read" /\ f.exists THEN [files |-> {f}, outcome |-> "read_failed"]
    ELSE IF fault = "open" THEN [files |-> {f}, outcome |-> "open_failed"]
    ELSE LET content == new_content(f, q.commits, d) IN
         IF fault = "write"
         THEN [files |-> PartialWrites(content), outcome |-> "write_failed"]
         ELSE [files |-> {OnDisk(WriteText(content))}, outcome |-> "ok"]

----------------------------------------------------------------------------
(* State machine: successive runs of the script on one working directory *)

Pieces == {Header, <<NL>>, <<"s">>, <<CR>>}

RECURSIVE Concat(_)
Concat(parts) == IF parts = <<>> THEN <<>> ELSE Head(parts) \o Concat(Tail(parts))

InitialContents == {Concat(ps) : ps \in UNION {[1..n -> Pieces] : n \in 0..MaxPieces}}

InitialFiles == {Absent} \cup {OnDisk(c) : c \in InitialContents}

Init ==
    /\ file \in InitialFiles
    /\ before = file
    /\ outcome = "none"
    /\ repo = NotARepo
    /\ date = NoDate

\* a behaviour follows the runs up to the first one that raises, while the
\* file is within the bound
CanRun == outcome \in {"none", "ok"} /\ Len(file.data) <= MaxFileLen

\* one run of the script: its inputs and its result become the state
Run(r, d, fault, ending) ==
    LET res == update_changelog(file, r, d, fault) IN
    /\ res.outcome = ending
    /\ file' \in res.files
    /\ before' = file
    /\ outcome' = ending
    /\ repo' = r
    /\ date' = d

\* the script returns normally
Completes ==
    /\ CanRun
    /\ \E r \in Repos, d \in Dates : Run(r, d, "none", "ok")

\* check_output raises CalledProcessError
QueryFails ==
    /\ CanRun
    /\ \E r \in Repos : Run(r, NoDate, "none", "query_failed")

\* open(CHANGELOG_FILE, "r") or f.read() raises
ReadFails ==
    /\ CanRun
    /\ \E r \in Repos, d \in Dates : Run(r, d, "read", "read_failed")

\* open(CHANGELOG_FILE, "w") raises
OpenForWriteFails ==
    /\ CanRun
    /\ \E r \in Repos, d \in Dates : Run(r, d, "open", "open_failed")

\* f.write() or the flush on close raises
WriteFails ==
    /\ CanRun
    /\ \E r \in Repos, d \in Dates : Run(r, d, "write", "write_failed")

Next == Completes \/ QueryFails \/ ReadFails \/ OpenForWriteFails \/ WriteFails

Spec == Init /\ [][Next]_vars

----------------------------------------------------------------------------
(* Vocabulary of the properties *)

Lines(text) == Split(text, NL)

\* the commits the history query of the last run returned
Returned == repo.commits

\* the last run wrote a section for at least one commit and returned
WroteSection == outcome = "ok" /\ Len(Returned) > 0

Heading(d) == <<"#", "#", SP>> \o Strftime(d)

Bullet(c) == <<"-", SP>> \o FormatRecord(c)

IsBullet(line) == Startswith(line, <<"-", SP>>)

Endswith(s, suffix) ==
    Len(s) >= Len(suffix) /\ SubSeq(s, Len(s) - Len(suffix) + 1, Len(s)) = suffix

\* the last n characters of s
Last(s, n) == SubSeq(s, Len(s) - n + 1, Len(s))

RECURSIVE BulletLines(_)
BulletLines(cs) ==
    IF cs = <<>> THEN <<>> ELSE Bullet(Head(cs)) \o <<NL>> \o BulletLines(Tail(cs))

----------------------------------------------------------------------------
(* Properties *)

\* C1: a run whose history query succeeds and returns no commit leaves
\* CHANGELOG.md exactly as it was, and does not create it when absent.
C1_NoCommitsFileUntouched ==
    (outcome = "ok" /\ Returned = <<>>) => file = before

\* C2: after a successful run with at least one commit the file begins with
\* the line "# Changelog" followed by a blank line, whatever it held before.
C2_StartsWithHeaderAndBlankLine ==
    WroteSection => Startswith(file.data, Header \o <<NL, NL>>)

\* C3: the section a run appends ends the file and holds exactly one bullet
\* line per returned commit, "- <short-id> <summary>", in the order the
\* query returned them: after the heading of the run's date come a line
\* that is no bullet, the N bullets, and the closing blank line.
C3_SectionHasTheCommitsInOrder ==
    WroteSection =>
        LET lines == Lines(file.data)
            n == Len(lines)
            N == Len(Returned)
        IN /\ n >= N + 4
           /\ lines[n] = <<>>
           /\ lines[n - 1] = <<>>
           /\ \A i \in 1..N : lines[n - 2 - N + i] = Bullet(Returned[i])
           /\ ~IsBullet(lines[n - 2 - N])
           /\ Endswith(lines[n - 3 - N], Heading(date))

C3_Witness ==
    /\ WroteSection
    /\ Len(Returned) = 2
    /\ Returned[1] # Returned[2]
    /\ before.exists
    /\ before.data # <<>>

\* C4: after a run that wrote a section the document has the line
\* "# Changelog" exactly once, and as its first line.
C4_HeaderLineExactlyOnceAndFirst ==
    WroteSection =>
        LET lines == Lines(file.data) IN
        /\ lines[1] = Header
        /\ Cardinality({i \in 1..Len(lines) : lines[i] = Header}) = 1

\* C5: a run whose history query fails raises before any file operation:
\* CHANGELOG.md is as it was, and is not created when it was absent.
C5_QueryFailureLeavesFile ==
    (outcome # "none" /\ ~GitLog(repo).ok) =>
        (outcome = "query_failed" /\ file = before)

C5_Witness ==
    /\ outcome = "query_failed"
    /\ ~repo.isRepo
    /\ before.exists
    /\ before.data # <<>>

\* C6 as stated: after a run that a filesystem error aborted (on the read,
\* on opening for writing, or on the write) the file is as it was.
C6_FilesystemErrorLeavesFile ==
    outcome \in {"read_failed", "open_failed", "write_failed"} => file = before

\* C6 amended: after a run aborted by an error on reading the file or on
\* opening it for writing the file is as it was (an error on the write
\* itself comes after the file was truncated).
C6_ReadOrOpenErrorLeavesFile ==
    outcome \in {"read_failed", "open_failed"} => file = before

C6_Witness ==
    /\ outcome = "read_failed"
    /\ before.exists
    /\ before.data # <<>>
    /\ Len(Returned) > 0

\* C7: on an absent or empty file a run with commits c1..cN on date D
\* writes "# Changelog", a blank line, "## D", the N bullets directly after
\* the heading, and one blank line.
C7_FreshFileContent ==
    (WroteSection /\ before.data = <<>>) =>
        file.data = Header \o <<NL, NL>> \o Heading(date) \o <<NL>>
                    \o BulletLines(Returned) \o <<NL>>

\* C8: a successful run with commits followed by a successful run with the
\* same commits and the same date leaves the document of the first run
\* followed by one more copy of the section the first run appended.
C8_SecondRunAppendsSameSection ==
    [][(/\ WroteSection
        /\ outcome' = "ok"
        /\ repo' = repo
        /\ date' = date)
       => LET old == file.data
              new == file'.data
              L == Len(new) - Len(old)
          IN /\ L > 0
             /\ L <= Len(old)
             /\ new = old \o Last(old, L)
             /\ Startswith(Last(old, L), Heading(date) \o <<NL>>)]_vars

C8_Witness ==
    /\ WroteSection
    /\ Len(Returned) = 2
    /\ LET L == Len(file.data) - Len(before.data) IN
       /\ L > 0
       /\ L <= Len(before.data)
       /\ file.data = before.data \o Last(before.data, L)
       /\ Startswith(Last(before.data, L), Heading(date) \o <<NL>>)

\* C9: a successful run with commits keeps the old content verbatim (after
\* the header block when it had none), and the heading of the new section
\* is a line of its own with a blank line before it.
C9_OldContentBlankLineSection ==
    WroteSection =>
        LET lines == Lines(file.data)
            old == before.data
            kept == IF Startswith(old, Header) THEN old ELSE Header \o <<NL, NL>> \o old
        IN /\ Startswith(file.data, kept)
           /\ \E h \in 2..Len(lines) :
                /\ lines[h] = Heading(date)
                /\ lines[h - 1] = <<>>
                /\ \A j \in (h + 1)..Len(lines) : lines[j] # Heading(date)

\* C10: in a repository whose history has fewer than 20 commits (and at
\* least one) the history query succeeds.
C10_ShortHistoryQuerySucceeds ==
    (outcome # "none" /\ repo.isRepo /\ repo.depth >= 1 /\ repo.depth < Window)
        => outcome # "query_failed"

====
